---- MODULE Spec2Model ----
(***************************************************************************)
(* StyleApiClient (src/src/services/StyleApiClient.ts): the session        *)
(* client of the style-preference API.  The state is the client's fields   *)
(* (aiId, preferenceId, currentIteration), the browser's localStorage, and *)
(* the asynchronous invocations that are suspended on the transport.       *)
(*                                                                         *)
(* JavaScript values: a string is a TLA+ string; text that the code        *)
(* formats, parses or searches (decimal numbers, error messages) is a      *)
(* sequence of pieces, so that toString, parseInt, === and includes are    *)
(* computed and not assumed.  Numbers are integers.                        *)
(***************************************************************************)
EXTENDS Integers, Sequences, FiniteSets, TLC

VARIABLES
    aiId,              \* this.aiId: string | null
    preferenceId,      \* this.preferenceId: string | null
    currentIteration,  \* this.currentIteration: number
    store,             \* localStorage: the keys present and their text
    calls,             \* per invocation slot: idle, or suspended on an await
    lastResult,        \* how the most recently finished invocation ended
    scenarioStep       \* history: position in an authenticate-then-submit run

vars == <<aiId, preferenceId, currentIteration, store, calls, lastResult, scenarioStep>>

session == <<aiId, preferenceId, currentIteration, store>>

-----------------------------------------------------------------------------
(* Values *)

\* JavaScript null and undefined; no identifier or argument takes these.
Null == "<null>"
Undefined == "<undefined>"

\* The limit the code compares the counter with (lines 124, 138, 156, 182, 209).
MaxIterations == 30

\* The status the iteration and profile handlers single out (lines 178, 284).
BadRequest == 400

\* How many times in a row the server may answer "Invalid iteration ID" to
\* one invocation (the code itself has no limit, lines 188-193).
MaxRetries == 2

AiIdKey == "style_ai_id"
PreferenceIdKey == "style_preference_id"
IterationKey == "style_current_iteration"

NoMoreImages == <<"No more images available">>
InvalidIterationId == <<"Invalid iteration ID">>
UnknownError == <<"Unknown error">>
NotAuthenticatedMessage == <<"Not authenticated. Please authenticate first.">>

\* JavaScript truthiness of a string | null | undefined value.
Truthy(v) == v # Null /\ v # Undefined /\ v # ""

\* Truthiness of text kept as a sequence of pieces: the empty text is falsy.
TruthyText(t) == t # <<>>

-----------------------------------------------------------------------------
(* Number <-> decimal text *)

DigitChars == <<"0", "1", "2", "3", "4", "5", "6", "7", "8", "9">>

IsDigit(ch) == \E d \in 1..10 : DigitChars[d] = ch

DigitValue(ch) == (CHOOSE d \in 1..10 : DigitChars[d] = ch) - 1

RECURSIVE NatToString(_)
NatToString(n) ==
    IF n < 10 THEN <<DigitChars[n + 1]>>
    ELSE NatToString(n \div 10) \o <<DigitChars[(n % 10) + 1]>>

\* Number.prototype.toString() of an integer.
IntToString(n) == IF n < 0 THEN <<"-">> \o NatToString(-n) ELSE NatToString(n)

\* The value of the longest prefix of digits of s from position i on;
\* -1 when there is no digit at i.
RECURSIVE DigitsValue(_, _, _)
DigitsValue(s, i, acc) ==
    IF i <= Len(s) /\ IsDigit(s[i])
    THEN DigitsValue(s, i + 1, IF acc < 0 THEN DigitValue(s[i]) ELSE acc * 10 + DigitValue(s[i]))
    ELSE acc

NaN == "NaN"

\* parseInt(s): an optional sign, then digits up to the first other character.
ParseInt(s) ==
    LET signed == Len(s) > 0 /\ s[1] \in {"-", "+"}
        magnitude == DigitsValue(s, IF signed THEN 2 ELSE 1, -1)
    IN  IF magnitude < 0 THEN NaN
        ELSE IF signed /\ s[1] = "-" THEN -magnitude ELSE magnitude

\* String.prototype.includes on text kept as pieces.
Includes(text, phrase) ==
    \E i \in 1..(Len(text) - Len(phrase) + 1) : SubSeq(text, i, i + Len(phrase) - 1) = phrase

-----------------------------------------------------------------------------
(* localStorage *)

HasItem(s, k) == k \in DOMAIN s

SetItem(s, k, v) == [x \in (DOMAIN s) \cup {k} |-> IF x = k THEN v ELSE s[x]]

RemoveItem(s, k) == [x \in (DOMAIN s) \ {k} |-> s[x]]

EmptyStore == [x \in {} |-> ""]

\* getItem for the two identifier keys: the stored string, or null.
GetItem(s, k) == IF HasItem(s, k) THEN s[k] ELSE Null

\* Lines 45-46: storedIteration ? parseInt(storedIteration) : 0
StoredIteration(s) ==
    IF HasItem(s, IterationKey) /\ TruthyText(s[IterationKey])
    THEN ParseInt(s[IterationKey])
    ELSE 0

\* The fields a client constructed against store s starts with (lines 39-48).
Constructed(s) ==
    [aiId |-> GetItem(s, AiIdKey),
     preferenceId |-> GetItem(s, PreferenceIdKey),
     currentIteration |-> StoredIteration(s)]

\* isAuthenticated with the preferenceId test left out.
IsAuthenticatedOfAiIdOnly(a, p) == Truthy(a)

\* get isAuthenticated (lines 50-52).
IsAuthenticatedOf(a, p) == Truthy(a) /\ Truthy(p)

IsAuthenticated == IsAuthenticatedOf(aiId, preferenceId)

\* The guard with the preferenceId test left out.
HasSessionAiIdOnly(a, p) == Truthy(a)

\* The guard of the session-requiring methods (lines 118, 234, 265):
\* !this.aiId || !this.preferenceId throws.
HasSession(a, p) == Truthy(a) /\ Truthy(p)

-----------------------------------------------------------------------------
(* The client's fields and store as one value, and the three mutators *)

Me == [aiId |-> aiId, preferenceId |-> preferenceId,
       currentIteration |-> currentIteration, store |-> store]

Become(S) ==
    /\ aiId' = S.aiId
    /\ preferenceId' = S.preferenceId
    /\ currentIteration' = S.currentIteration
    /\ store' = S.store

\* setSessionData without the reset of the counter.
SetSessionDataKeepingIteration(S, a, p) ==
    [aiId |-> a, preferenceId |-> p, currentIteration |-> S.currentIteration,
     store |-> SetItem(SetItem(S.store, AiIdKey, a), PreferenceIdKey, p)]

\* setSessionData (lines 54-62).
SetSessionDataOn(S, a, p) ==
    [aiId |-> a, preferenceId |-> p, currentIteration |-> 0,
     store |-> SetItem(SetItem(SetItem(S.store, AiIdKey, a), PreferenceIdKey, p),
                       IterationKey, <<"0">>)]

\* clearSessionData without the removal of the iteration key.
ClearSessionDataKeepingIterationKey(S) ==
    [aiId |-> Null, preferenceId |-> Null, currentIteration |-> 0,
     store |-> RemoveItem(RemoveItem(S.store, AiIdKey), PreferenceIdKey)]

\* clearSessionData (lines 64-72).
ClearSessionDataOn(S) ==
    [aiId |-> Null, preferenceId |-> Null, currentIteration |-> 0,
     store |-> RemoveItem(RemoveItem(RemoveItem(S.store, AiIdKey), PreferenceIdKey),
                          IterationKey)]

\* setCurrentIteration that never moves the counter backwards.
SetCurrentIterationForwardOnly(S, n) ==
    IF n < S.currentIteration THEN S
    ELSE [S EXCEPT !.currentIteration = n,
                   !.store = SetItem(S.store, IterationKey, IntToString(n))]

\* setCurrentIteration without the write to the store.
SetCurrentIterationInMemoryOnly(S, n) == [S EXCEPT !.currentIteration = n]

\* setCurrentIteration (lines 86-90).
SetCurrentIterationOn(S, n) ==
    [S EXCEPT !.currentIteration = n,
              !.store = SetItem(S.store, IterationKey, IntToString(n))]

-----------------------------------------------------------------------------
(* The transport: requests, and what can come back *)

Statuses == {200, 400, 500}

\* response.ok
Ok(status) == status >= 200 /\ status <= 299

\* What a rejected fetch carries in error.message.
ThrowMessages == {<<"Failed to fetch">>, <<"Load failed: ", "No more images available">>}

\* The message of the SyntaxError response.json() rejects with.
ParseErrorMessage == <<"Unexpected token < in JSON at position 0">>

\* The error text of an error body; <<>> stands for an absent or empty one.
ErrorTexts == {NoMoreImages, InvalidIterationId, <<"Server busy">>,
               <<"Sorry. ", "No more images available">>, <<>>}

Thrown(m) == [kind |-> "throw", message |-> m]
Http(status, body) == [kind |-> "http", status |-> status, body |-> body]
Json(v) == [parsed |-> TRUE, json |-> v]
Unparsable == [parsed |-> FALSE]
NoResponse == [kind |-> "none"]

ErrorResponses ==
    {Http(s, Json([error |-> t])) : s \in {s \in Statuses : ~Ok(s)}, t \in ErrorTexts}

FailedResponses ==
    {Thrown(m) : m \in ThrowMessages} \cup {Http(s, Unparsable) : s \in Statuses}
        \cup ErrorResponses

\* Iteration values a successful iteration response may carry besides the
\* requested one.
OtherIterations == {-1, 0, 30, 31}

ServerStyles == {Undefined, "boho"}

IterationData(n, c, st) ==
    [image_url |-> "https://img/next.jpg", iteration |-> n, completed |-> c,
     style |-> st, image_key |-> IF st = Undefined THEN Undefined ELSE "boho/7.jpg"]

IterationResponses(request) ==
    FailedResponses \cup
    {Http(s, Json(IterationData(n, c, st))) :
        s \in {s \in Statuses : Ok(s)},
        n \in {request.iteration} \cup OtherIterations,
        c \in BOOLEAN, st \in ServerStyles}

\* Identifiers the server may issue; the empty string is a string too.
ServerAiIds == {"", "ai-1", "ai-2"}
ServerPreferenceIds == {"", "pref-1"}

AuthResponses ==
    FailedResponses \cup
    {Http(s, Json([ai_id |-> a, preference_id |-> p])) :
        s \in {s \in Statuses : Ok(s)}, a \in ServerAiIds, p \in ServerPreferenceIds}

EmptyProfile == [top_styles |-> <<>>, selection_history |-> <<>>]

ServerProfiles ==
    {EmptyProfile,
     [top_styles |-> <<<<"boho", 3>>>>,
      selection_history |-> <<[image |-> "boho/7.jpg", style |-> "boho", feedback |-> "Like"]>>]}

ProfileResponses ==
    FailedResponses \cup
    {Http(s, Json(pr)) : s \in {s \in Statuses : Ok(s)}, pr \in ServerProfiles}

SaveProfileResponses ==
    FailedResponses \cup
    {Http(s, Json([message |-> "Profile saved"])) : s \in {s \in Statuses : Ok(s)}}

\* `${prefix}: ${response.status} - ${errorData.error || 'Unknown error'}`
\* (lines 105, 194, 199, 252, 293).
StatusMessage(prefix, status, text) ==
    <<prefix>> \o IntToString(status) \o <<" - ">>
        \o (IF TruthyText(text) THEN text ELSE UnknownError)

-----------------------------------------------------------------------------
(* submitFeedbackAndGetNextImage, the part before the request *)

\* The terminal test as an equality.
IsExhaustedOnlyAtLimit(cur) == cur = MaxIterations

\* Line 124.
IsExhausted(cur) == cur >= MaxIterations

\* The next iteration computed without the increment.
NextIterationRepeated(cur) == IF cur = 0 THEN 1 ELSE cur

\* Line 135.
NextIteration(cur) == IF cur = 0 THEN 1 ELSE cur + 1

\* The synthetic terminal result (lines 126-130, 140-144, 183-187, 219-223).
Synthetic(n) == [image_url |-> "", iteration |-> n, completed |-> TRUE]

\* The request body with style and image_key attached on every iteration.
RequestBodyStyleOnEveryIteration(next, feedback, style, imageKey) ==
    LET feedbackValue == IF Truthy(feedback) THEN feedback ELSE "dislike"
    IN  IF Truthy(style) /\ Truthy(imageKey)
        THEN [feedback |-> feedbackValue, style |-> style, image_key |-> imageKey]
        ELSE [feedback |-> feedbackValue]

\* Lines 148-159: feedback || "dislike"; style and image_key only on the
\* final iteration and only when both are truthy.
RequestBody(next, feedback, style, imageKey) ==
    LET feedbackValue == IF Truthy(feedback) THEN feedback ELSE "dislike"
    IN  IF next = MaxIterations /\ Truthy(style) /\ Truthy(imageKey)
        THEN [feedback |-> feedbackValue, style |-> style, image_key |-> imageKey]
        ELSE [feedback |-> feedbackValue]

\* Lines 165-175.
IterationRequest(a, p, next, feedback, style, imageKey) ==
    [method |-> "POST", endpoint |-> "iteration", preferenceId |-> p,
     iteration |-> next, aiId |-> a, body |-> RequestBody(next, feedback, style, imageKey)]

\* Lines 118-175: what one entry into the method does up to its first await,
\* for a client whose fields are S.
SubmitEntry(S, feedback, style, imageKey) ==
    IF ~HasSession(S.aiId, S.preferenceId)
    THEN [kind |-> "throw", message |-> NotAuthenticatedMessage]
    ELSE IF IsExhausted(S.currentIteration)
    THEN [kind |-> "return", value |-> Synthetic(S.currentIteration)]
    ELSE LET next == NextIteration(S.currentIteration)
         IN  IF next > MaxIterations
             THEN [kind |-> "return", value |-> Synthetic(MaxIterations)]
             ELSE [kind |-> "fetch",
                   request |-> IterationRequest(S.aiId, S.preferenceId, next,
                                                feedback, style, imageKey)]

-----------------------------------------------------------------------------
(* submitFeedbackAndGetNextImage, the handling of what the transport gives *)

\* A catch that only rethrows.
CaughtAndRethrown(message) == [kind |-> "throw", message |-> message, set |-> <<>>]

\* A catch that takes every error for the completion signal.
CaughtAsCompletion(message) ==
    [kind |-> "return", value |-> Synthetic(MaxIterations), set |-> <<MaxIterations>>]

\* Lines 214-226: the inner catch.  Every error raised inside the inner try
\* passes through it: a rejected fetch, a rejected response.json(), and the
\* errors the try block throws itself.
Caught(message) ==
    IF Includes(message, NoMoreImages)
    THEN [kind |-> "return", value |-> Synthetic(MaxIterations), set |-> <<MaxIterations>>]
    ELSE [kind |-> "throw", message |-> message, set |-> <<>>]

\* The 400 handling with the completion not recorded in the counter.
OnBadRequestCompletionNotRecorded(text) ==
    IF text = NoMoreImages
    THEN [kind |-> "return", value |-> Synthetic(MaxIterations), set |-> <<>>]
    ELSE IF text = InvalidIterationId
    THEN [kind |-> "retry", set |-> <<0>>]
    ELSE [kind |-> "throw", set |-> <<>>,
          message |-> StatusMessage("Failed to submit feedback: ", BadRequest, text)]

\* Lines 178-195: a parsed body of a 400 response.
OnBadRequest(text) ==
    IF text = NoMoreImages
    THEN [kind |-> "return", value |-> Synthetic(MaxIterations), set |-> <<MaxIterations>>]
    ELSE IF text = InvalidIterationId
    THEN [kind |-> "retry", set |-> <<0>>]
    ELSE Caught(StatusMessage("Failed to submit feedback: ", BadRequest, text))

\* The success handling that keeps the server's completed flag.
OnDataKeepingCompleted(data) ==
    [kind |-> "return", value |-> data, set |-> <<data.iteration>>]

\* Lines 202-213: a parsed body of a success response.
OnData(data) ==
    [kind |-> "return",
     value |-> [data EXCEPT !.completed = (data.iteration >= MaxIterations)],
     set |-> <<data.iteration>>]

\* Lines 165-226: the outcome of one request.  set is the argument of the
\* call to setCurrentIteration the handling makes, if it makes one.
OnIterationResponse(r) ==
    IF r.kind = "throw" THEN Caught(r.message)
    ELSE IF ~r.body.parsed THEN Caught(ParseErrorMessage)
    ELSE IF r.status = BadRequest THEN OnBadRequest(r.body.json.error)
    ELSE IF ~Ok(r.status)
    THEN Caught(StatusMessage("Failed to submit feedback: ", r.status, r.body.json.error))
    ELSE OnData(r.body.json)

-----------------------------------------------------------------------------
(* Invocations and their results *)

Slots == {1, 2}

Idle == [pc |-> "idle"]

AllIdle == \A c \in Slots : calls[c].pc = "idle"

\* No invocation but the one in slot c is in progress.
OthersIdle(c) == \A d \in Slots \ {c} : calls[d].pc = "idle"

\* The slot a new invocation takes: the lowest idle one.
IsFreeSlot(c) ==
    /\ calls[c].pc = "idle"
    /\ \A d \in Slots : d < c => calls[d].pc # "idle"

Before == [aiId |-> aiId, preferenceId |-> preferenceId,
           currentIteration |-> currentIteration]

\* outcome is "returned" or "threw"; targets are the iteration numbers of the
\* requests the invocation issued, in order; response is the last transport
\* outcome it handled; before holds the fields as they were when it ended.
Finished(op, outcome, value, targets, response) ==
    [op |-> op, outcome |-> outcome, value |-> value, targets |-> targets,
     response |-> response, before |-> Before]

NoResult ==
    [op |-> "none", outcome |-> "none", value |-> [none |-> TRUE], targets |-> <<>>,
     response |-> NoResponse,
     before |-> [aiId |-> Null, preferenceId |-> Null, currentIteration |-> 0]]

Failure(message) == [message |-> message]

\* History of the scenario "authenticate, then submit and await, again and
\* again, each request n answered successfully with iteration n": the number
\* of submit invocations finished since the authenticate; -1 outside it.
ScenarioAdvance ==
    IF scenarioStep < 0 THEN -1
    ELSE IF scenarioStep > MaxIterations THEN scenarioStep
    ELSE scenarioStep + 1

-----------------------------------------------------------------------------
(* Arguments the callers pass *)

Feedbacks == {Undefined, "like", "dislike"}
Styles == {Undefined, "", "boho"}
ImageKeys == {Undefined, "boho/7.jpg"}
CallerAiIds == {"", "ai-1"}
CallerPreferenceIds == {"", "pref-1"}
CallerIterations == {0, 29, 31}
AccessIds == {"access-1"}
Genders == {"women"}

-----------------------------------------------------------------------------
(* State after the module-level construction against an empty store *)

Init ==
    /\ store = EmptyStore
    /\ aiId = Constructed(EmptyStore).aiId
    /\ preferenceId = Constructed(EmptyStore).preferenceId
    /\ currentIteration = Constructed(EmptyStore).currentIteration
    /\ calls = [c \in Slots |-> Idle]
    /\ lastResult = NoResult
    /\ scenarioStep = -1

-----------------------------------------------------------------------------
(* Synchronous operations *)

\* A page load: the module is evaluated again and constructs the client
\* from what the store holds (lines 39-48, 323); suspended invocations of
\* the previous page are gone.
Construct ==
    /\ Become([aiId |-> Constructed(store).aiId,
               preferenceId |-> Constructed(store).preferenceId,
               currentIteration |-> Constructed(store).currentIteration,
               store |-> store])
    /\ calls' = [c \in Slots |-> Idle]
    /\ lastResult' = Finished("construct", "returned", [none |-> TRUE], <<>>, NoResponse)
    /\ scenarioStep' = -1

SetSessionData(a, p) ==
    /\ Become(SetSessionDataOn(Me, a, p))
    /\ lastResult' = Finished("setSessionData", "returned", [aiId |-> a, preferenceId |-> p],
                              <<>>, NoResponse)
    /\ scenarioStep' = -1
    /\ UNCHANGED calls

ClearSessionData ==
    /\ Become(ClearSessionDataOn(Me))
    /\ lastResult' = Finished("clearSessionData", "returned", [none |-> TRUE], <<>>, NoResponse)
    /\ scenarioStep' = -1
    /\ UNCHANGED calls

SetCurrentIteration(n) ==
    /\ Become(SetCurrentIterationOn(Me, n))
    /\ lastResult' = Finished("setCurrentIteration", "returned", [iteration |-> n],
                              <<>>, NoResponse)
    /\ scenarioStep' = -1
    /\ UNCHANGED calls

-----------------------------------------------------------------------------
(* authenticate (lines 92-115) *)

AuthenticateStart(c, accessId, gender) ==
    /\ IsFreeSlot(c)
    /\ calls' = [calls EXCEPT ![c] =
                    [pc |-> "awaiting", op |-> "authenticate",
                     request |-> [method |-> "POST", endpoint |-> "preference",
                                  body |-> [access_id |-> accessId, gender |-> gender]]]]
    /\ lastResult' = NoResult
    /\ scenarioStep' = -1
    /\ UNCHANGED session

\* authenticate storing the body before it looks at the status.
OnAuthResponseStoredBeforeStatusCheck(r) ==
    IF r.kind = "throw" THEN [kind |-> "throw", message |-> r.message]
    ELSE IF ~r.body.parsed THEN [kind |-> "throw", message |-> ParseErrorMessage]
    ELSE IF ~Ok(r.status)
    THEN [kind |-> "return", value |-> [ai_id |-> Undefined, preference_id |-> Undefined]]
    ELSE [kind |-> "return", value |-> r.body.json]

\* What authenticate does with the transport's outcome: the error it throws,
\* or the data it hands to setSessionData and returns.
OnAuthResponse(r) ==
    IF r.kind = "throw" THEN [kind |-> "throw", message |-> r.message]
    ELSE IF ~r.body.parsed THEN [kind |-> "throw", message |-> ParseErrorMessage]
    ELSE IF ~Ok(r.status)
    THEN [kind |-> "throw",
          message |-> StatusMessage("Authentication failed: ", r.status, r.body.json.error)]
    ELSE [kind |-> "return", value |-> r.body.json]

AuthenticateRespond(c, r) ==
    /\ calls[c].pc = "awaiting"
    /\ calls[c].op = "authenticate"
    /\ r \in AuthResponses
    /\ LET h == OnAuthResponse(r)
       IN  IF h.kind = "return"
           THEN /\ Become(SetSessionDataOn(Me, h.value.ai_id, h.value.preference_id))
                /\ lastResult' = Finished("authenticate", "returned", h.value, <<>>, r)
                /\ scenarioStep' = IF OthersIdle(c) THEN 0 ELSE -1
           ELSE /\ UNCHANGED session
                /\ lastResult' = Finished("authenticate", "threw", Failure(h.message), <<>>, r)
                /\ scenarioStep' = -1
    /\ calls' = [calls EXCEPT ![c] = Idle]

-----------------------------------------------------------------------------
(* submitFeedbackAndGetNextImage (lines 117-231) *)

\* One entry into the method (the caller's, or the recursive one of line
\* 192) by a client whose fields are S, having issued `targets` so far.
SubmitEnter(c, S, feedback, style, imageKey, targets, response) ==
    LET e == SubmitEntry(S, feedback, style, imageKey)
    IN  /\ Become(S)
        /\ IF e.kind = "fetch"
           THEN /\ calls' = [calls EXCEPT ![c] =
                               [pc |-> "awaiting", op |-> "submit", feedback |-> feedback,
                                style |-> style, imageKey |-> imageKey,
                                request |-> e.request,
                                targets |-> Append(targets, e.request.iteration)]]
                /\ lastResult' = NoResult
                /\ scenarioStep' = IF response = NoResponse /\ AllIdle THEN scenarioStep ELSE -1
           ELSE /\ calls' = [calls EXCEPT ![c] = Idle]
                /\ lastResult' =
                      IF e.kind = "return"
                      THEN Finished("submit", "returned", e.value, targets, response)
                      ELSE Finished("submit", "threw", Failure(e.message), targets, response)
                /\ scenarioStep' = IF response = NoResponse /\ AllIdle THEN ScenarioAdvance ELSE -1

SubmitStart(c, feedback, style, imageKey) ==
    /\ IsFreeSlot(c)
    /\ SubmitEnter(c, Me, feedback, style, imageKey, <<>>, NoResponse)

IsInvalidIteration(r) ==
    r.kind = "http" /\ r.status = BadRequest /\ r.body.parsed
        /\ r.body.json.error = InvalidIterationId

SubmitRespond(c, r) ==
    /\ calls[c].pc = "awaiting"
    /\ calls[c].op = "submit"
    /\ r \in IterationResponses(calls[c].request)
    /\ IsInvalidIteration(r) => Len(calls[c].targets) <= MaxRetries
    /\ LET h == OnIterationResponse(r)
           S == IF h.set = <<>> THEN Me ELSE SetCurrentIterationOn(Me, h.set[1])
       IN  IF h.kind = "retry"
           THEN SubmitEnter(c, S, calls[c].feedback, calls[c].style, calls[c].imageKey,
                            calls[c].targets, r)
           ELSE /\ Become(S)
                /\ calls' = [calls EXCEPT ![c] = Idle]
                /\ lastResult' =
                      IF h.kind = "return"
                      THEN Finished("submit", "returned", h.value, calls[c].targets, r)
                      ELSE Finished("submit", "threw", Failure(h.message), calls[c].targets, r)
                /\ scenarioStep' =
                      IF /\ h.kind = "return"
                         /\ OthersIdle(c)
                         /\ r.kind = "http" /\ Ok(r.status) /\ r.body.parsed
                         /\ r.body.json.iteration = calls[c].request.iteration
                      THEN ScenarioAdvance
                      ELSE -1

-----------------------------------------------------------------------------
(* saveProfile (lines 233-262) *)

ProfileRequest(method, a, p) ==
    [method |-> method, endpoint |-> "profile", preferenceId |-> p, aiId |-> a]

SaveProfileStart(c) ==
    /\ IsFreeSlot(c)
    /\ IF ~HasSession(aiId, preferenceId)
       THEN /\ lastResult' = Finished("saveProfile", "threw", Failure(NotAuthenticatedMessage),
                                      <<>>, NoResponse)
            /\ UNCHANGED calls
       ELSE /\ calls' = [calls EXCEPT ![c] =
                           [pc |-> "awaiting", op |-> "saveProfile",
                            request |-> ProfileRequest("POST", aiId, preferenceId)]]
            /\ lastResult' = NoResult
    /\ scenarioStep' = -1
    /\ UNCHANGED session

OnSaveProfileResponse(r) ==
    IF r.kind = "throw" THEN [kind |-> "throw", message |-> r.message]
    ELSE IF ~r.body.parsed THEN [kind |-> "throw", message |-> ParseErrorMessage]
    ELSE IF ~Ok(r.status)
    THEN [kind |-> "throw",
          message |-> StatusMessage("Failed to save profile: ", r.status, r.body.json.error)]
    ELSE [kind |-> "return", value |-> r.body.json]

SaveProfileRespond(c, r) ==
    /\ calls[c].pc = "awaiting"
    /\ calls[c].op = "saveProfile"
    /\ r \in SaveProfileResponses
    /\ LET h == OnSaveProfileResponse(r)
       IN  lastResult' =
              IF h.kind = "return"
              THEN Finished("saveProfile", "returned", h.value, <<>>, r)
              ELSE Finished("saveProfile", "threw", Failure(h.message), <<>>, r)
    /\ calls' = [calls EXCEPT ![c] = Idle]
    /\ scenarioStep' = -1
    /\ UNCHANGED session

-----------------------------------------------------------------------------
(* getProfile (lines 264-307) *)

\* Lines 265-271: the guard, then the one-second timer.
GetProfileStart(c) ==
    /\ IsFreeSlot(c)
    /\ IF ~HasSession(aiId, preferenceId)
       THEN /\ lastResult' = Finished("getProfile", "threw", Failure(NotAuthenticatedMessage),
                                      <<>>, NoResponse)
            /\ UNCHANGED calls
       ELSE /\ calls' = [calls EXCEPT ![c] = [pc |-> "delay", op |-> "getProfile"]]
            /\ lastResult' = NoResult
    /\ scenarioStep' = -1
    /\ UNCHANGED session

\* Lines 273-281: the timer has fired; the request reads the fields as they
\* are now.
GetProfileFetch(c) ==
    /\ calls[c].pc = "delay"
    /\ calls' = [calls EXCEPT ![c] =
                    [pc |-> "awaiting", op |-> "getProfile",
                     request |-> ProfileRequest("GET", aiId, preferenceId)]]
    /\ UNCHANGED <<session, lastResult, scenarioStep>>

\* Lines 273-298: the body of the try.  A 400 gives the empty profile
\* without reading the body; any other failure status throws.
ProfileTry(r) ==
    IF r.kind = "throw" THEN [kind |-> "throw", message |-> r.message]
    ELSE IF ~Ok(r.status)
    THEN IF r.status = BadRequest
         THEN [kind |-> "return", value |-> EmptyProfile]
         ELSE IF ~r.body.parsed THEN [kind |-> "throw", message |-> ParseErrorMessage]
         ELSE [kind |-> "throw",
               message |-> StatusMessage("Failed to get profile: ", r.status,
                                         r.body.json.error)]
    ELSE IF ~r.body.parsed THEN [kind |-> "throw", message |-> ParseErrorMessage]
    ELSE [kind |-> "return", value |-> r.body.json]

\* getProfile without its catch.
OnProfileResponseUncaught(r) == ProfileTry(r)

\* Lines 269-306: the catch turns whatever the try throws into the empty
\* profile.
OnProfileResponse(r) ==
    IF ProfileTry(r).kind = "throw"
    THEN [kind |-> "return", value |-> EmptyProfile]
    ELSE ProfileTry(r)

GetProfileRespond(c, r) ==
    /\ calls[c].pc = "awaiting"
    /\ calls[c].op = "getProfile"
    /\ r \in ProfileResponses
    /\ LET h == OnProfileResponse(r)
       IN  lastResult' =
              IF h.kind = "return"
              THEN Finished("getProfile", "returned", h.value, <<>>, r)
              ELSE Finished("getProfile", "threw", Failure(h.message), <<>>, r)
    /\ calls' = [calls EXCEPT ![c] = Idle]
    /\ scenarioStep' = -1
    /\ UNCHANGED session

-----------------------------------------------------------------------------
(* The client used as section 5 of the design expects: every operation is  *)
(* awaited before the next is issued.                                      *)

Issue ==
    \/ AllIdle /\ Construct
    \/ AllIdle /\ \E a \in CallerAiIds, p \in CallerPreferenceIds : SetSessionData(a, p)
    \/ AllIdle /\ ClearSessionData
    \/ AllIdle /\ \E n \in CallerIterations : SetCurrentIteration(n)
    \/ AllIdle /\ \E c \in Slots, accessId \in AccessIds, gender \in Genders :
                     AuthenticateStart(c, accessId, gender)
    \/ AllIdle /\ \E c \in Slots, feedback \in Feedbacks, style \in Styles,
                     imageKey \in ImageKeys :
                     SubmitStart(c, feedback, style, imageKey)
    \/ AllIdle /\ \E c \in Slots : SaveProfileStart(c)
    \/ AllIdle /\ \E c \in Slots : GetProfileStart(c)

Resume ==
    \/ \E c \in Slots : \E r \in AuthResponses : AuthenticateRespond(c, r)
    \/ \E c \in Slots :
          /\ calls[c].pc = "awaiting"
          /\ calls[c].op = "submit"
          /\ \E r \in IterationResponses(calls[c].request) : SubmitRespond(c, r)
    \/ \E c \in Slots : \E r \in SaveProfileResponses : SaveProfileRespond(c, r)
    \/ \E c \in Slots : GetProfileFetch(c)
    \/ \E c \in Slots : \E r \in ProfileResponses : GetProfileRespond(c, r)

Next == Issue \/ Resume

Spec == Init /\ [][Next]_vars

-----------------------------------------------------------------------------
(* The awaited client that uses only authenticate, setSessionData,
   clearSessionData and submitFeedbackAndGetNextImage *)

SessionIssue ==
    \/ AllIdle /\ \E a \in CallerAiIds, p \in CallerPreferenceIds : SetSessionData(a, p)
    \/ AllIdle /\ ClearSessionData
    \/ AllIdle /\ \E c \in Slots, accessId \in AccessIds, gender \in Genders :
                     AuthenticateStart(c, accessId, gender)
    \/ AllIdle /\ \E c \in Slots, feedback \in Feedbacks, style \in Styles,
                        imageKey \in ImageKeys : SubmitStart(c, feedback, style, imageKey)

SessionResume ==
    \/ \E c \in Slots : \E r \in AuthResponses : AuthenticateRespond(c, r)
    \/ \E c \in Slots : /\ calls[c].pc = "awaiting"
                         /\ calls[c].op = "submit"
                         /\ \E r \in IterationResponses(calls[c].request) : SubmitRespond(c, r)

SessionNext == SessionIssue \/ SessionResume

SessionSpec == Init /\ [][SessionNext]_vars

-----------------------------------------------------------------------------
(* The client whose caller does not await: a call may start, and the session
   may be set or cleared, while another call is suspended at its fetch.  The
   methods are async and nothing in the class serialises them (lines 92,
   117); the continuations run one at a time on the event loop. *)

OverlapFeedbacks == {"like"}

OverlapAuthResponses ==
    {Http(200, Json([ai_id |-> "ai-1", preference_id |-> "pref-1"])),
     Http(500, Json([error |-> <<"Server busy">>]))}

\* The server walks the iterations one by one up to this one and then jumps
\* to the last.
MaxOverlapIteration == 3

\* The server answers with the requested iteration or with the last one,
\* rejects the iteration number, or the fetch fails.
OverlapIterationResponses(request) ==
    {Http(200, Json(IterationData(n, FALSE, Undefined))) :
        n \in ({request.iteration} \cap (0..MaxOverlapIteration)) \cup {MaxIterations}}
    \cup {Http(BadRequest, Json([error |-> InvalidIterationId])),
          Thrown(<<"Failed to fetch">>)}

OverlapIssue ==
    \/ SetSessionData("ai-1", "pref-1")
    \/ ClearSessionData
    \/ \E c \in Slots, accessId \in AccessIds, gender \in Genders :
           AuthenticateStart(c, accessId, gender)
    \/ \E c \in Slots, feedback \in OverlapFeedbacks :
           SubmitStart(c, feedback, Undefined, Undefined)

OverlapResume ==
    \/ \E c \in Slots : \E r \in OverlapAuthResponses : AuthenticateRespond(c, r)
    \/ \E c \in Slots : /\ calls[c].pc = "awaiting"
                         /\ calls[c].op = "submit"
                         /\ \E r \in OverlapIterationResponses(calls[c].request) :
                               SubmitRespond(c, r)

OverlapNext == OverlapIssue \/ OverlapResume

OverlapSpec == Init /\ [][OverlapNext]_vars

-----------------------------------------------------------------------------
(* Vocabulary of the properties *)

\* Both identifiers are present and non-empty.
SessionActive == aiId \notin {Null, Undefined, ""} /\ preferenceId \notin {Null, Undefined, ""}

\* This step sends an iteration request from slot c.
IssuesIterationRequest(c) ==
    /\ calls'[c].pc = "awaiting"
    /\ calls'[c].op = "submit"
    /\ \/ calls[c].pc = "idle"
       \/ /\ calls[c].pc = "awaiting"
          /\ calls[c].op = "submit"
          /\ Len(calls'[c].targets) > Len(calls[c].targets)

\* This step is an entry into submitFeedbackAndGetNextImage by a caller.
IsSubmitStart(c) ==
    \E feedback \in Feedbacks, style \in Styles, imageKey \in ImageKeys :
        SubmitStart(c, feedback, style, imageKey)

\* This step hands response r to the submit invocation suspended in slot c.
IsSubmitRespond(c, r) ==
    /\ calls[c].pc = "awaiting"
    /\ calls[c].op = "submit"
    /\ SubmitRespond(c, r)

BadRequestWith(text) == Http(400, Json([error |-> text]))

StoredIterationText == IF HasItem(store, IterationKey) THEN store[IterationKey] ELSE <<"absent">>

-----------------------------------------------------------------------------
\* C1: Terminal state.  When submitFeedbackAndGetNextImage is called on a
\* client with an active session whose currentIteration is n >= 30, no
\* request is sent, the call returns {image_url: "", iteration: n,
\* completed: true}, and currentIteration and the store stay as they are;
\* and no step sends an iteration request while the counter is 30 or more.
C1_TerminalState ==
    [][\A c \in Slots :
          /\ (SessionActive /\ currentIteration >= 30 /\ IsSubmitStart(c)) =>
                /\ calls' = calls
                /\ lastResult'.op = "submit"
                /\ lastResult'.outcome = "returned"
                /\ lastResult'.targets = <<>>
                /\ lastResult'.value =
                      [image_url |-> "", iteration |-> currentIteration, completed |-> TRUE]
                /\ UNCHANGED session
          /\ IssuesIterationRequest(c) =>
                /\ currentIteration' < 30
                /\ calls'[c].request.iteration <= 30
      ]_vars

\* C1 witness: a call at currentIteration = 31 has returned the synthetic
\* result with iteration 31 and no request.
C1_Witness ==
    /\ lastResult.op = "submit"
    /\ lastResult.outcome = "returned"
    /\ lastResult.targets = <<>>
    /\ lastResult.before.currentIteration = 31
    /\ lastResult.value = [image_url |-> "", iteration |-> 31, completed |-> TRUE]
    /\ currentIteration = 31

\* C2: Invalid-iteration recovery.  A 400 "Invalid iteration ID" answer to a
\* request of submitFeedbackAndGetNextImage resets currentIteration to 0 in
\* memory and in the store and sends one retried request, for iteration 1
\* with the original arguments, and that is the only retried request of the
\* invocation whatever the server answers to it.
C2_ExactlyOneRetry ==
    [][\A c \in Slots :
          IsSubmitRespond(c, BadRequestWith(InvalidIterationId)) =>
             /\ currentIteration' = 0
             /\ StoredIterationText' = <<"0">>
             /\ calls'[c].pc = "awaiting"
             /\ calls'[c].request.iteration = 1
             /\ calls'[c].feedback = calls[c].feedback
             /\ calls'[c].style = calls[c].style
             /\ calls'[c].imageKey = calls[c].imageKey
             /\ Len(calls'[c].targets) = 2
      ]_vars

\* C3: Graceful completion.  A 400 "No more images available" answer to a
\* request of submitFeedbackAndGetNextImage makes the call return
\* {image_url: "", iteration: 30, completed: true} and leaves
\* currentIteration = 30 in memory and "30" in the store, whatever the
\* counter was.
C3_GracefulCompletion ==
    [][\A c \in Slots :
          IsSubmitRespond(c, BadRequestWith(NoMoreImages)) =>
             /\ calls'[c] = Idle
             /\ lastResult'.op = "submit"
             /\ lastResult'.outcome = "returned"
             /\ lastResult'.value = [image_url |-> "", iteration |-> 30, completed |-> TRUE]
             /\ currentIteration' = 30
             /\ StoredIterationText' = <<"3", "0">>
      ]_vars

\* C3 witness: the first request of a session (counter 0) was answered
\* 400 "No more images available" and the counter is now 30.
C3_Witness ==
    /\ lastResult.op = "submit"
    /\ lastResult.response = BadRequestWith(NoMoreImages)
    /\ lastResult.before.currentIteration = 0
    /\ lastResult.outcome = "returned"
    /\ currentIteration = 30

\* C4: Authentication precondition.  With aiId or preferenceId missing,
\* submitFeedbackAndGetNextImage, saveProfile and getProfile each throw the
\* not-authenticated error, send nothing, and leave aiId, preferenceId,
\* currentIteration and the store as they are.
C4_AuthenticationPrecondition ==
    [][\A c \in Slots :
          (~SessionActive /\ (IsSubmitStart(c) \/ SaveProfileStart(c) \/ GetProfileStart(c))) =>
             /\ calls' = calls
             /\ lastResult'.op \in {"submit", "saveProfile", "getProfile"}
             /\ lastResult'.outcome = "threw"
             /\ lastResult'.value = [message |-> NotAuthenticatedMessage]
             /\ lastResult'.targets = <<>>
             /\ UNCHANGED session
      ]_vars

\* C4 witness: getProfile was called without a session and threw.
C4_Witness ==
    /\ lastResult.op = "getProfile"
    /\ lastResult.outcome = "threw"
    /\ lastResult.value = [message |-> NotAuthenticatedMessage]
    /\ aiId = Null
    /\ preferenceId = Null

\* This step hands response r to the authenticate invocation suspended in c.
IsAuthenticateRespond(c, r) ==
    /\ calls[c].pc = "awaiting"
    /\ calls[c].op = "authenticate"
    /\ AuthenticateRespond(c, r)

SuccessfulAuthResponses == {r \in AuthResponses : r.kind = "http" /\ r.status = 200 /\ r.body.parsed}

StoreHolds(s, a, p, iterationText) ==
    /\ DOMAIN s = {AiIdKey, PreferenceIdKey, IterationKey}
    /\ s[AiIdKey] = a
    /\ s[PreferenceIdKey] = p
    /\ s[IterationKey] = iterationText

\* What a successful authenticate leaves behind, apart from isAuthenticated.
AuthenticateStores(r) ==
    /\ aiId' = r.body.json.ai_id
    /\ preferenceId' = r.body.json.preference_id
    /\ currentIteration' = 0
    /\ StoreHolds(store', r.body.json.ai_id, r.body.json.preference_id, <<"0">>)
    /\ lastResult'.op = "authenticate"
    /\ lastResult'.outcome = "returned"

\* C5 as stated: after any successful authenticate isAuthenticated is true,
\* aiId and preferenceId are the server's values, currentIteration is 0 and
\* the three are in the store.
C5_AuthenticateAlwaysAuthenticated ==
    [][\A c \in Slots, r \in SuccessfulAuthResponses :
          IsAuthenticateRespond(c, r) => (AuthenticateStores(r) /\ IsAuthenticated')
      ]_vars

\* C5 as amended: after any successful authenticate, from any prior state,
\* aiId and preferenceId are the server's values, currentIteration is 0 and
\* the three are in the store in place of the prior session; isAuthenticated
\* is true exactly when both returned identifiers are non-empty.
C5_AuthenticateStoresSession ==
    [][\A c \in Slots, r \in SuccessfulAuthResponses :
          IsAuthenticateRespond(c, r) =>
             /\ AuthenticateStores(r)
             /\ IsAuthenticated' <=>
                   (r.body.json.ai_id # "" /\ r.body.json.preference_id # "")
      ]_vars

\* C5 witness: an authenticate succeeded over a session that stood at
\* iteration 30 under another aiId, and replaced it.
C5_Witness ==
    /\ lastResult.op = "authenticate"
    /\ lastResult.outcome = "returned"
    /\ lastResult.before.aiId = "ai-1"
    /\ lastResult.before.currentIteration = 30
    /\ aiId = "ai-2"
    /\ preferenceId = "pref-1"
    /\ IsAuthenticated
    /\ currentIteration = 0
    /\ StoreHolds(store, "ai-2", "pref-1", <<"0">>)

\* The k-th call of the scenario has ended and no later one has begun.
ScenarioCallEnded == scenarioStep >= 1 /\ lastResult.op # "none"

\* The k-th call of the scenario, k = scenarioStep: calls 1..30 each sent
\* one request, for iteration k, and returned completed = (k = 30) with the
\* counter at k; every later call returned the synthetic result and sent
\* nothing.
ScenarioHolds ==
    /\ lastResult.op = "submit"
    /\ lastResult.outcome = "returned"
    /\ IF scenarioStep <= 30
       THEN /\ lastResult.targets = <<scenarioStep>>
            /\ lastResult.value.iteration = scenarioStep
            /\ lastResult.value.completed = (scenarioStep = 30)
            /\ currentIteration = scenarioStep
       ELSE /\ lastResult.targets = <<>>
            /\ lastResult.value = [image_url |-> "", iteration |-> 30, completed |-> TRUE]
            /\ currentIteration = 30

\* C6 as stated: from a successful authenticate on, with each call awaited
\* and every iteration request n answered successfully with iteration n,
\* the k-th submitFeedbackAndGetNextImage (k = 1..30) sends exactly one
\* request, for iteration k, with completed false for k < 30 and true for
\* k = 30 where the counter is left at 30, and the 31st call returns the
\* synthetic terminal result without a request.
C6_ThirtyStepLoop == ScenarioCallEnded => ScenarioHolds

\* C6 as amended: the same, from a successful authenticate whose response
\* carried non-empty identifiers.
C6_ThirtyStepLoopWithSession == (ScenarioCallEnded /\ SessionActive) => ScenarioHolds

\* C6 witness: the 31st call of the scenario has returned.
C6_Witness ==
    /\ scenarioStep = 31
    /\ SessionActive
    /\ lastResult.op = "submit"
    /\ lastResult.targets = <<>>
    /\ lastResult.before.currentIteration = 30

\* The store holds exactly what the fields hold: a client constructed
\* against it gets the same aiId, preferenceId and currentIteration.
Mirror == Constructed(store) = Before

RoundTrip(a, p, authenticated) ==
    /\ Constructed(store').aiId = a
    /\ Constructed(store').preferenceId = p
    /\ IsAuthenticatedOf(Constructed(store').aiId, Constructed(store').preferenceId)
          = authenticated

\* C7 as stated: in every state the store mirrors aiId, preferenceId and
\* currentIteration (absent key for null / 0), and setSessionData(a, b)
\* followed by a fresh construction gives isAuthenticated = true,
\* getAiId() = a, getPreferenceId() = b.
C7_MirrorAndRoundTrip ==
    /\ Mirror
    /\ [][/\ Mirror'
          /\ \A a \in CallerAiIds, p \in CallerPreferenceIds :
                SetSessionData(a, p) => RoundTrip(a, p, TRUE)
         ]_vars

\* C7 as amended: in every state the store mirrors aiId, preferenceId and
\* currentIteration (absent key for null / 0), so a fresh construction
\* gives the same getters and the same isAuthenticated; setSessionData(a, b)
\* followed by a fresh construction gives getAiId() = a, getPreferenceId()
\* = b, and isAuthenticated = true exactly when a and b are non-empty.
C7_MirrorAndRoundTripNonEmpty ==
    /\ Mirror
    /\ [][/\ Mirror'
          /\ \A a \in CallerAiIds, p \in CallerPreferenceIds :
                SetSessionData(a, p) => RoundTrip(a, p, a # "" /\ p # "")
         ]_vars

\* C7 witness: setSessionData("ai-1", "pref-1") ran on a client that stood
\* at a later iteration, and a fresh construction reads the new session.
C7_Witness ==
    /\ lastResult.op = "setSessionData"
    /\ lastResult.value = [aiId |-> "ai-1", preferenceId |-> "pref-1"]
    /\ lastResult.before.currentIteration = 29
    /\ Constructed(store) = [aiId |-> "ai-1", preferenceId |-> "pref-1", currentIteration |-> 0]
    /\ IsAuthenticatedOf(Constructed(store).aiId, Constructed(store).preferenceId)

\* C8: after clearSessionData, from any state, getAiId() and
\* getPreferenceId() are null, getCurrentIteration() is 0, isAuthenticated
\* is false and the store holds none of the three keys.
C8_ClearSessionData ==
    [][ClearSessionData =>
          /\ aiId' = Null
          /\ preferenceId' = Null
          /\ currentIteration' = 0
          /\ ~IsAuthenticated'
          /\ (DOMAIN store') \cap {AiIdKey, PreferenceIdKey, IterationKey} = {}
      ]_vars

\* C8 witness: clearSessionData ran on a session that stood at iteration 30.
C8_Witness ==
    /\ lastResult.op = "clearSessionData"
    /\ lastResult.before.aiId = "ai-1"
    /\ lastResult.before.preferenceId = "pref-1"
    /\ lastResult.before.currentIteration = 30
    /\ aiId = Null
    /\ currentIteration = 0
    /\ DOMAIN store = {}

\* This step hands response r to the getProfile invocation suspended in c.
IsGetProfileRespond(c, r) ==
    /\ calls[c].pc = "awaiting"
    /\ calls[c].op = "getProfile"
    /\ GetProfileRespond(c, r)

\* C9: with an active session getProfile throws nothing: it suspends on
\* entry, and whatever the transport gives (a rejection, a 400, another
\* failure status, an unparsable body) it returns {top_styles: {},
\* selection_history: []}; on a success status with a parsed body it
\* returns that body.
C9_GetProfileNeverThrows ==
    [][\A c \in Slots :
          /\ (SessionActive /\ GetProfileStart(c)) =>
                (calls'[c].pc = "delay" /\ lastResult'.outcome # "threw")
          /\ \A r \in ProfileResponses :
                IsGetProfileRespond(c, r) =>
                   /\ lastResult'.op = "getProfile"
                   /\ lastResult'.outcome = "returned"
                   /\ lastResult'.value =
                         IF r.kind = "http" /\ r.status = 200 /\ r.body.parsed
                         THEN r.body.json
                         ELSE [top_styles |-> <<>>, selection_history |-> <<>>]
      ]_vars

\* C9 witness: getProfile got a 500 with an error body and returned the
\* empty profile.
C9_Witness ==
    /\ lastResult.op = "getProfile"
    /\ lastResult.response = Http(500, Json([error |-> <<"Server busy">>]))
    /\ lastResult.outcome = "returned"
    /\ lastResult.value = [top_styles |-> <<>>, selection_history |-> <<>>]
    /\ SessionActive

\* The failure responses with a parsed error body other than the two the
\* 400 branch recognizes.
UnrecognizedErrorResponses ==
    ErrorResponses \ {BadRequestWith(NoMoreImages), BadRequestWith(InvalidIterationId)}

MentionsNoMoreImages(text) == \E i \in DOMAIN text : text[i] = "No more images available"

FailsWith(c, r) ==
    /\ calls'[c] = Idle
    /\ lastResult'.op = "submit"
    /\ lastResult'.outcome = "threw"
    /\ lastResult'.value =
          [message |-> <<"Failed to submit feedback: ">> \o IntToString(r.status) \o <<" - ">>
                          \o (IF r.body.json.error = <<>> THEN <<"Unknown error">>
                              ELSE r.body.json.error)]
    /\ UNCHANGED session

\* C10 as stated: every failure status other than the two recognized cases,
\* with any status code and any error text, makes the call throw the
\* feedback-submission error with the status and the text, return nothing
\* and leave currentIteration as it is in memory and in the store.
C10_OtherFailuresThrow ==
    [][\A c \in Slots, r \in UnrecognizedErrorResponses :
          IsSubmitRespond(c, r) => FailsWith(c, r)
      ]_vars

\* C10 as amended: that holds when the error text does not contain "No more
\* images available"; when it does (under any failure status, or under 400
\* with more text around it) the error is caught inside the method, the
\* call returns {image_url: "", iteration: 30, completed: true} and
\* currentIteration becomes 30 in memory and in the store.
C10_OtherFailuresThrowUnlessNoMoreImages ==
    [][\A c \in Slots, r \in UnrecognizedErrorResponses :
          IsSubmitRespond(c, r) =>
             IF MentionsNoMoreImages(r.body.json.error)
             THEN /\ calls'[c] = Idle
                  /\ lastResult'.outcome = "returned"
                  /\ lastResult'.value = [image_url |-> "", iteration |-> 30, completed |-> TRUE]
                  /\ currentIteration' = 30
                  /\ StoredIterationText' = <<"3", "0">>
             ELSE FailsWith(c, r)
      ]_vars

\* C10 witness: a request made at iteration 29 got a 500 without error
\* text; the call threw and the counter is still 29.
C10_Witness ==
    /\ lastResult.op = "submit"
    /\ lastResult.response = Http(500, Json([error |-> <<>>]))
    /\ lastResult.outcome = "threw"
    /\ lastResult.before.currentIteration = 29
    /\ currentIteration = 29
    /\ StoredIterationText = <<"2", "9">>

\* C11: Transport failure in submitFeedbackAndGetNextImage.  When the fetch
\* rejects with a message that contains "No more images available" the call
\* returns {image_url: "", iteration: 30, completed: true} and
\* currentIteration becomes 30 in memory and in the store; when it rejects
\* with any other message that error reaches the caller and currentIteration
\* stays as it is in memory and in the store.
C11_TransportFailure ==
    [][\A c \in Slots, m \in ThrowMessages :
          IsSubmitRespond(c, Thrown(m)) =>
             /\ calls'[c] = Idle
             /\ lastResult'.op = "submit"
             /\ IF MentionsNoMoreImages(m)
                THEN /\ lastResult'.outcome = "returned"
                     /\ lastResult'.value =
                           [image_url |-> "", iteration |-> 30, completed |-> TRUE]
                     /\ currentIteration' = 30
                     /\ StoredIterationText' = <<"3", "0">>
                ELSE /\ lastResult'.outcome = "threw"
                     /\ lastResult'.value = [message |-> m]
                     /\ UNCHANGED session
      ]_vars

\* C11 witness: the fetch of the first request of a session rejected with a
\* message containing "No more images available"; the call returned and the
\* counter is 30.
C11_Witness ==
    /\ lastResult.op = "submit"
    /\ lastResult.response = Thrown(<<"Load failed: ", "No more images available">>)
    /\ lastResult.outcome = "returned"
    /\ lastResult.before.currentIteration = 0
    /\ currentIteration = 30
    /\ StoredIterationText = <<"3", "0">>

\* The success responses to the request suspended in slot c.
DataResponses(c) ==
    {r \in IterationResponses(calls[c].request) :
        r.kind = "http" /\ r.status = 200 /\ r.body.parsed}

\* C12: on a successful iteration response carrying iteration r,
\* currentIteration becomes r in memory and in the store (the server's
\* value, whatever iteration was requested) and the call returns the
\* response's fields with completed = (r >= 30), whatever completed flag the
\* server sent.
C12_SuccessTakesServerIteration ==
    [][\A c \in Slots :
          (calls[c].pc = "awaiting" /\ calls[c].op = "submit") =>
             \A r \in DataResponses(c) :
                SubmitRespond(c, r) =>
                   /\ currentIteration' = r.body.json.iteration
                   /\ StoredIteration(store') = r.body.json.iteration
                   /\ calls'[c] = Idle
                   /\ lastResult'.op = "submit"
                   /\ lastResult'.outcome = "returned"
                   /\ lastResult'.value.iteration = r.body.json.iteration
                   /\ lastResult'.value.image_url = r.body.json.image_url
                   /\ lastResult'.value.style = r.body.json.style
                   /\ lastResult'.value.image_key = r.body.json.image_key
                   /\ lastResult'.value.completed = (r.body.json.iteration >= 30)
      ]_vars

\* C12 witness: a request for iteration 30 was answered with iteration 0
\* and completed = true; the counter is 0 and the result says completed =
\* false.
C12_Witness ==
    /\ lastResult.op = "submit"
    /\ lastResult.outcome = "returned"
    /\ lastResult.targets = <<30>>
    /\ lastResult.response.kind = "http"
    /\ lastResult.response.status = 200
    /\ lastResult.response.body.parsed
    /\ lastResult.response.body.json.iteration = 0
    /\ lastResult.response.body.json.completed = TRUE
    /\ lastResult.value.completed = FALSE
    /\ currentIteration = 0
    /\ StoredIterationText = <<"0">>

Supplied(v) == v \notin {Undefined, Null, ""}

\* C13: every iteration request carries feedback, "dislike" when the
\* argument was omitted, and carries style and image_key exactly when it is
\* for iteration 30 and style and imageKey were both supplied non-empty;
\* the requests of the Invalid-iteration retry (for iteration 1) included.
C13_RequestBody ==
    \A c \in Slots :
        (calls[c].pc = "awaiting" /\ calls[c].op = "submit") =>
           LET body == calls[c].request.body
               withStyle == /\ calls[c].request.iteration = 30
                            /\ Supplied(calls[c].style)
                            /\ Supplied(calls[c].imageKey)
           IN  /\ "feedback" \in DOMAIN body
               /\ body.feedback = IF calls[c].feedback = Undefined THEN "dislike"
                                  ELSE calls[c].feedback
               /\ ("style" \in DOMAIN body) <=> withStyle
               /\ ("image_key" \in DOMAIN body) <=> withStyle
               /\ withStyle => (body.style = calls[c].style
                                /\ body.image_key = calls[c].imageKey)
               /\ calls[c].request.iteration = calls[c].targets[Len(calls[c].targets)]

\* C13 witness: a call made with style and imageKey sent them for iteration
\* 30, was answered "Invalid iteration ID", and its retry for iteration 1 is
\* in flight without them.
C13_Witness ==
    \E c \in Slots :
        /\ calls[c].pc = "awaiting"
        /\ calls[c].op = "submit"
        /\ calls[c].targets = <<30, 1>>
        /\ calls[c].feedback = Undefined
        /\ calls[c].style = "boho"
        /\ calls[c].imageKey = "boho/7.jpg"
        /\ calls[c].request.body = [feedback |-> "dislike"]

\* C14: in every state reachable from an empty store through
\* authenticate, setSessionData, clearSessionData and
\* submitFeedbackAndGetNextImage, whatever the server answers,
\* currentIteration is an integer from 0 to 30.
C14_CounterInRange == currentIteration \in 0..MaxIterations

\* C15 as stated: in every state aiId and preferenceId are both null or
\* both non-null, and isAuthenticated is true exactly when both are
\* non-null.
C15_SessionPairing ==
    /\ (aiId = Null) <=> (preferenceId = Null)
    /\ IsAuthenticated <=> (aiId # Null /\ preferenceId # Null)

\* C15 as amended: in every state (after construction from the store and
\* after authenticate with any identifiers included) aiId and preferenceId
\* are both null or both non-null, and isAuthenticated is true exactly when
\* both are non-null and non-empty.
C15_SessionPairingNonEmpty ==
    /\ (aiId = Null) <=> (preferenceId = Null)
    /\ IsAuthenticated <=>
          (aiId # Null /\ preferenceId # Null /\ aiId # "" /\ preferenceId # "")

\* C15 witness: authenticate stored an empty ai_id beside a preference_id.
C15_Witness ==
    /\ lastResult.op = "authenticate"
    /\ lastResult.outcome = "returned"
    /\ aiId = ""
    /\ preferenceId = "pref-1"
    /\ ~IsAuthenticated

\* C16: the retry is bounded.  When the retried request that follows an
\* "Invalid iteration ID" reset is answered 400 "Invalid iteration ID" too,
\* the invocation ends with an error and does not reset and retry again.
C16_BoundedRetry ==
    [][\A c \in Slots :
          (/\ calls[c].pc = "awaiting"
           /\ calls[c].op = "submit"
           /\ Len(calls[c].targets) >= 2
           /\ SubmitRespond(c, BadRequestWith(InvalidIterationId))) =>
             /\ calls'[c] = Idle
             /\ lastResult'.op = "submit"
             /\ lastResult'.outcome = "threw"
      ]_vars

\* Slot d holds a submit invocation awaiting the answer to its first
\* request, which it issued when the counter was what it is now.
AwaitingFirstRequestFromHere(d) ==
    /\ calls[d].pc = "awaiting"
    /\ calls[d].op = "submit"
    /\ calls[d].targets = <<currentIteration + 1>>

\* C17: when submitFeedbackAndGetNextImage is called while an earlier call
\* of the same session, started at the same currentIteration n < 30, still
\* awaits its response, the new call issues a request for the same iteration
\* n + 1; and each successful response sets currentIteration to its own
\* iteration value as it is handled, so the one handled last decides the
\* final value.
C17_OverlappingSubmissions ==
    [][/\ \A c \in Slots, d \in Slots :
             (/\ c # d
              /\ SessionActive
              /\ currentIteration < MaxIterations
              /\ AwaitingFirstRequestFromHere(d)
              /\ IsSubmitStart(c)) =>
                 /\ calls'[c].pc = "awaiting"
                 /\ calls'[c].op = "submit"
                 /\ calls'[c].request.iteration = currentIteration + 1
                 /\ calls'[c].request.iteration = calls[d].request.iteration
                 /\ calls'[d] = calls[d]
                 /\ currentIteration' = currentIteration
       /\ \A c \in Slots :
             (calls[c].pc = "awaiting" /\ calls[c].op = "submit") =>
                \A r \in DataResponses(c) :
                   SubmitRespond(c, r) =>
                      /\ currentIteration' = r.body.json.iteration
                      /\ StoredIteration(store') = r.body.json.iteration
                      /\ \A d \in Slots \ {c} : calls'[d] = calls[d]
      ]_vars

\* C17 witness: two calls asked for iteration 1; the answer to the first
\* (iteration 30) has been handled and set the counter, the second request
\* for iteration 1 is still in flight.
C17_Witness ==
    /\ lastResult.op = "submit"
    /\ lastResult.outcome = "returned"
    /\ lastResult.targets = <<1>>
    /\ lastResult.before.currentIteration = 0
    /\ currentIteration = MaxIterations
    /\ \E d \in Slots :
          /\ calls[d].pc = "awaiting"
          /\ calls[d].op = "submit"
          /\ calls[d].targets = <<1>>

\* C18: whenever aiId and preferenceId are both null, currentIteration is 0
\* and the store has no iteration key; in every state reachable through
\* authenticate, setSessionData, clearSessionData and
\* submitFeedbackAndGetNextImage, a clearSessionData that happens while a
\* submit is in flight included.
C18_ClearedSessionHasZeroCounter ==
    (aiId = Null /\ preferenceId = Null) =>
        (currentIteration = 0 /\ ~HasItem(store, IterationKey))

FailedAuthResponses == AuthResponses \ SuccessfulAuthResponses

\* C19: an authenticate that fails (failure status, rejected fetch,
\* unparsable body) throws and leaves aiId, preferenceId, currentIteration
\* and the store as they were, so an active session and its progress
\* survive it.
C19_FailedAuthenticateKeepsSession ==
    [][\A c \in Slots, r \in FailedAuthResponses :
          IsAuthenticateRespond(c, r) =>
             /\ calls'[c] = Idle
             /\ lastResult'.op = "authenticate"
             /\ lastResult'.outcome = "threw"
             /\ UNCHANGED session
      ]_vars

\* C19 witness: a re-authentication of a session at iteration 29 got a 500
\* and threw; the session and the counter are as before.
C19_Witness ==
    /\ lastResult.op = "authenticate"
    /\ lastResult.outcome = "threw"
    /\ lastResult.response = Http(500, Json([error |-> <<"Server busy">>]))
    /\ lastResult.value =
          [message |-> <<"Authentication failed: ", "5", "0", "0", " - ", "Server busy">>]
    /\ lastResult.before = [aiId |-> "ai-1", preferenceId |-> "pref-1", currentIteration |-> 29]
    /\ Before = lastResult.before
    /\ StoreHolds(store, "ai-1", "pref-1", <<"2", "9">>)

====
